---- MODULE Spec2Model ----
(***************************************************************************)
(* Process chart editor (ProcessChart component and the App that hosts it) *)
(* and the TimeCalculationService that annualises the chart's steps and    *)
(* simulates improvements.                                                 *)
(*                                                                         *)
(* Numbers.  Hour and day figures are kept in tenths, as the code rounds   *)
(* them: Math.round(x * 10) / 10 is the integer Math.round(x * 10).        *)
(* Minute figures are exact rationals [num, den] in lowest terms.          *)
(* Units: "minute" = '分', "hour" = '時間', "day" = '日', "week" = '週',   *)
(* "month" = '月', "year" = '年'.                                          *)
(***************************************************************************)
EXTENDS Integers, Sequences, FiniteSets, TLC

\* ------------------------------------------------------------------ bounds
\* the number of editing handlers (pushes, undo, redo) a run makes
MaxOps == 4

\* ------------------------------------------------------------- arithmetic
RECURSIVE Gcd(_, _)
Gcd(a, b) == IF b = 0 THEN a ELSE Gcd(b, a % b)

Abs(x) == IF x < 0 THEN -x ELSE x

\* a rational in lowest terms, denominator positive
Q(n, d) ==
  LET g == Gcd(Abs(n), Abs(d))
      s == IF d < 0 THEN -1 ELSE 1
  IN  [num |-> s * (n \div g), den |-> s * (d \div g)]

QInt(n) == [num |-> n, den |-> 1]
QAdd(a, b) == Q(a.num * b.den + b.num * a.den, a.den * b.den)
QSub(a, b) == Q(a.num * b.den - b.num * a.den, a.den * b.den)
QMul(a, b) == Q(a.num * b.num, a.den * b.den)
QLess(a, b) == a.num * b.den < b.num * a.den

\* Math.round(x): the integer nearest to x, halves rounded up
MathRound(x) == (2 * x.num + x.den) \div (2 * x.den)

\* Math.round(minutes / 60 * 10): tenths of hours
RoundHours(minutes) == MathRound(QMul(minutes, Q(10, 60)))

\* ------------------------------------------------------------ step values
CATEGORIES == {"process", "inspection", "transport", "delay", "storage"}

Null == [null |-> TRUE]

DefaultOptions ==
  [businessDaysPerYear |-> 250, businessWeeksPerYear |-> 52,
   businessMonthsPerYear |-> 12, hoursPerDay |-> 8]

\* a conversion that takes a day for 8 hours whatever the config says
MinutesPerOccurrence_EightHourDay(data, options) ==
  IF data.timeUnit = "hour" THEN data.time * 60
  ELSE IF data.timeUnit = "day" THEN data.time * (8 * 60)
  ELSE data.time

\* minutesPerOccurrence of one step
MinutesPerOccurrence(data, options) ==
  IF data.timeUnit = "hour" THEN data.time * 60
  ELSE IF data.timeUnit = "day" THEN data.time * (options.hoursPerDay * 60)
  ELSE data.time

\* occurrencesPerYear of one step
OccurrencesPerYear(data, options) ==
  CASE data.frequencyUnit = "day" -> data.frequency * options.businessDaysPerYear
    [] data.frequencyUnit = "week" -> data.frequency * options.businessWeeksPerYear
    [] data.frequencyUnit = "month" -> data.frequency * options.businessMonthsPerYear
    [] data.frequencyUnit = "year" -> data.frequency
    [] OTHER -> 0

\* the options with a default for every one that is not given
ResolveOptions(options) ==
  [k \in DOMAIN DefaultOptions |->
     IF k \in DOMAIN options THEN options[k] ELSE DefaultOptions[k]]

\* a skip test that lets a time of 0 through
Counted_AllowsZero(step) ==
  /\ "time" \in DOMAIN step.data
  /\ step.data.time >= 0
  /\ "frequency" \in DOMAIN step.data
  /\ step.data.frequency > 0

\* a step takes part unless its time or frequency is missing or <= 0
Counted(step) ==
  /\ "time" \in DOMAIN step.data
  /\ step.data.time > 0
  /\ "frequency" \in DOMAIN step.data
  /\ step.data.frequency > 0

StepDetail(step, options) ==
  LET mpo == MinutesPerOccurrence(step.data, options)
      opy == OccurrencesPerYear(step.data, options)
  IN  [id |-> step.id, label |-> step.data.label, type |-> step.type,
       minutesPerOccurrence |-> mpo, occurrencesPerYear |-> opy,
       annualMinutes |-> QInt(mpo * opy),
       annualHours |-> RoundHours(QInt(mpo * opy))]

RECURSIVE StepDetailsOf(_, _)
StepDetailsOf(steps, options) ==
  IF steps = <<>> THEN <<>>
  ELSE IF Counted(Head(steps))
       THEN <<StepDetail(Head(steps), options)>> \o StepDetailsOf(Tail(steps), options)
       ELSE StepDetailsOf(Tail(steps), options)

RECURSIVE SumMinutes(_, _)
SumMinutes(details, types) ==
  IF details = <<>> THEN QInt(0)
  ELSE IF Head(details).type \in types
       THEN QAdd(Head(details).annualMinutes, SumMinutes(Tail(details), types))
       ELSE SumMinutes(Tail(details), types)

calculateAnnualWorkload(steps, given) ==
  LET options == ResolveOptions(given)
      details == StepDetailsOf(steps, options)
      total == SumMinutes(details, {d.type : d \in {details[i] : i \in DOMAIN details}})
      hours == RoundHours(total)
  IN  [totalMinutes |-> total,
       totalHours |-> hours,
       totalDays |-> MathRound(Q(hours, options.hoursPerDay)),
       categorySummary |-> [c \in CATEGORIES |-> RoundHours(SumMinutes(details, {c}))],
       stepDetails |-> details]

\* ------------------------------------------------------------------ objects
(***************************************************************************)
(* A heap is a sequence of objects and an address is an index into it.  A  *)
(* workload is four kinds of object: the summary, which names its          *)
(* categorySummary object and its stepDetails array, and the array, which  *)
(* names one object per step.  Two references are the same object when     *)
(* they are the same address.                                              *)
(***************************************************************************)
AllocWorkload(h, w) ==
  LET base == Len(h)
      n == Len(w.stepDetails)
  IN  h \o <<[totalMinutes |-> w.totalMinutes, totalHours |-> w.totalHours,
              totalDays |-> w.totalDays, categorySummary |-> base + 2,
              stepDetails |-> base + 3]>>
        \o <<w.categorySummary>>
        \o <<[i \in 1..n |-> base + 3 + i]>>
        \o w.stepDetails

\* the value of the workload whose summary is at address a
WorkloadAt(h, a) ==
  [totalMinutes |-> h[a].totalMinutes, totalHours |-> h[a].totalHours,
   totalDays |-> h[a].totalDays,
   categorySummary |-> h[h[a].categorySummary],
   stepDetails |-> [i \in DOMAIN h[h[a].stepDetails] |-> h[h[h[a].stepDetails][i]]]]

\* JSON.parse(JSON.stringify(x)): every object of x anew, the values kept
JSONCopy(h, a) == AllocWorkload(h, WorkloadAt(h, a))

\* a number the code divides to get: NaN for 0/0, Infinity for x/0
Ratio(n, d) ==
  IF d # 0 THEN [kind |-> "number", tenths |-> MathRound(Q(n, d))]
  ELSE IF n = 0 THEN [kind |-> "NaN", tenths |-> 0]
  ELSE [kind |-> "Infinity", tenths |-> 0]

Zero == [kind |-> "number", tenths |-> 0]

\* one improvement applied to the workload at address root, in place
ApplyImprovement(h, root, improvement) ==
  LET details == h[h[root].stepDetails]
      found == {i \in DOMAIN details : h[details[i]].id = improvement.targetStepId}
  IN  IF found = {} THEN h
      ELSE
        LET targetStepIndex == CHOOSE i \in found : \A j \in found : i <= j
            target == details[targetStepIndex]
            originalMinutes == h[target].annualMinutes
            reducedMinutes ==
              QMul(originalMinutes, Q(improvement.timeReductionPercent, 100))
            h1 == [h EXCEPT ![target].annualMinutes = QSub(@, reducedMinutes)]
            h2 == [h1 EXCEPT ![target].annualHours = RoundHours(h1[target].annualMinutes)]
            h3 == [h2 EXCEPT ![root].totalMinutes = QSub(@, reducedMinutes)]
            cat == h3[root].categorySummary
            type == h3[target].type
        IN  IF type \in DOMAIN h3[cat]
            THEN [h3 EXCEPT ![cat][type] = @ - RoundHours(reducedMinutes)]
            ELSE h3

RECURSIVE ApplyImprovements(_, _, _)
ApplyImprovements(h, root, improvements) ==
  IF improvements = <<>> THEN h
  ELSE ApplyImprovements(ApplyImprovement(h, root, Head(improvements)), root,
                         Tail(improvements))

\* a copy of the summary object alone, sharing categorySummary and stepDetails
ImprovedWorkload_Shallow(h, currentWorkload) == Append(h, h[currentWorkload])

\* the copy the simulation works on
ImprovedWorkload(h, currentWorkload) == JSONCopy(h, currentWorkload)

\* totals left as the copy had them
Retotal_Skipped(h, root) == h

\* the totals recomputed after the improvements
Retotal(h, root) ==
  LET hours == RoundHours(h[root].totalMinutes)
  IN  [h EXCEPT ![root].totalHours = hours,
                ![root].totalDays = MathRound(Q(hours, 8))]

Savings(before, after) ==
  LET savingsHours == before.totalHours - after.totalHours
  IN  [hours |-> [kind |-> "number", tenths |-> savingsHours],
       days |-> [kind |-> "number", tenths |-> MathRound(Q(savingsHours, 8))],
       percent |-> Ratio(savingsHours * 1000, before.totalHours)]

\* TimeCalculationService.calculateImprovementEffect on a workload in the heap:
\* the heap afterwards and the object returned
calculateImprovementEffect(h, currentWorkload, improvements) ==
  IF improvements = <<>>
  THEN [heap |-> h,
        before |-> currentWorkload, after |-> currentWorkload,
        savings |-> [hours |-> Zero, days |-> Zero, percent |-> Zero]]
  ELSE
    LET copied == ImprovedWorkload(h, currentWorkload)
        improvedWorkload == Len(h) + 1
        applied == ApplyImprovements(copied, improvedWorkload, improvements)
        final == Retotal(applied, improvedWorkload)
    IN  [heap |-> final,
         before |-> currentWorkload, after |-> improvedWorkload,
         savings |-> Savings(final[currentWorkload], final[improvedWorkload])]

\* ------------------------------------------------------------ chart state
VARIABLES
  nodes,            \* ProcessChart: displayed nodes
  edges,            \* ProcessChart: displayed edges
  selectedNode,     \* ProcessChart: the selected node object, or Null
  selectedEdge,     \* ProcessChart: the selected edge object, or Null
  nodeDialogOpen,   \* ProcessChart: the edit dialog is open
  nodeForm,         \* ProcessChart: the edit dialog's form
  history,          \* ProcessChart: snapshots [nodes, edges]
  historyIndex,     \* ProcessChart: cursor into history, 0-based, -1 when empty
  isHistoryAction,  \* ProcessChart: ref set by undo/redo, read by the change handlers
  processSteps,     \* App: the steps, passed back to the chart as initialNodes
  workloadData,     \* App: the workload summary, or Null
  nodesIsSteps,     \* the nodes array and the processSteps array are one object
  clock,            \* Date.now(), which names new nodes
  ops,              \* the number of editing handlers run so far
  pc,               \* React: "idle", or the effect that runs next
  lastOp,           \* the handler that ran last and the branch it took
  afterUndo,        \* lastOp pushed, and the handler before it was an undo that restored
  shownBefore,      \* the nodes and edges displayed before the last edit, undo or redo
  undone            \* an undo or a redo has been asked for

chartVars ==
  <<nodes, edges, selectedNode, selectedEdge, nodeDialogOpen, nodeForm, history,
    historyIndex, isHistoryAction, processSteps, workloadData, nodesIsSteps, clock,
    ops, pc, lastOp, afterUndo, shownBefore, undone>>

\* the inputs the chart actions draw from
NodeTypes == {"process"}
FormChanges == {<<"time", 0>>, <<"type", "delay">>}
DragPositions == {<<0, 0>>}

Snapshot(ns, es) == [nodes |-> ns, edges |-> es]

Range(s) == {s[i] : i \in DOMAIN s}

\* history.slice(0, historyIndex + 1) followed by the pushed state
PushHistory(h, i, ns, es) == Append(SubSeq(h, 1, i + 1), Snapshot(ns, es))

\* the edges the initialisation effect builds: one from each node to the next
InitialEdges(ns) ==
  [i \in 1..(Len(ns) - 1) |->
     [id |-> <<"edge", ns[i].id, ns[i + 1].id>>,
      source |-> ns[i].id, target |-> ns[i + 1].id]]

NewNodeData(type, n) ==
  [label |-> <<type, n>>, time |-> 10, timeUnit |-> "minute",
   frequency |-> 1, frequencyUnit |-> "day"]

InitialForm ==
  [label |-> <<"", 0>>, type |-> "process", time |-> 10, timeUnit |-> "minute",
   frequency |-> 1, frequencyUnit |-> "day"]

ChartInit ==
  /\ nodes = <<>>
  /\ edges = <<>>
  /\ selectedNode = Null
  /\ selectedEdge = Null
  /\ nodeDialogOpen = FALSE
  /\ nodeForm = InitialForm
  /\ history = <<>>
  /\ historyIndex = -1
  /\ isHistoryAction = FALSE
  /\ processSteps = <<>>
  /\ workloadData = Null
  /\ nodesIsSteps = TRUE
  /\ clock = 1
  /\ ops = 0
  /\ pc = "idle"
  /\ lastOp = "none"
  /\ afterUndo = FALSE
  /\ shownBefore = Null
  /\ undone = FALSE

\* a handler can run: no effect is pending and the modal dialog is closed
Ready == pc = "idle" /\ ~nodeDialogOpen

\* an editing handler can run within the model's bound
CanEdit == Ready /\ ops < MaxOps

\* a push that forgets to move the cursor
Push_CursorStays ==
  /\ history' = PushHistory(history, historyIndex, nodes, edges)
  /\ historyIndex' = historyIndex

\* a push that records the snapshot twice, leaving one entry ahead of the cursor
Push_LeavesEntryAhead ==
  /\ history' = Append(PushHistory(history, historyIndex, nodes, edges),
                       Snapshot(nodes, edges))
  /\ historyIndex' = historyIndex + 1

\* the push every editing handler starts with
Push ==
  /\ history' = PushHistory(history, historyIndex, nodes, edges)
  /\ historyIndex' = historyIndex + 1

Pushed(op) ==
  /\ ops' = ops + 1
  /\ lastOp' = op
  /\ afterUndo' = (lastOp = "undo")
  /\ shownBefore' = [nodes |-> nodes, edges |-> edges]
  /\ undone' = undone

NotPushed(op) ==
  /\ ops' = ops + 1
  /\ lastOp' = op
  /\ afterUndo' = FALSE
  /\ shownBefore' = IF op \in {"undo", "redo", "nodesChangeFlagged", "edgesChangeFlagged"}
                    THEN [nodes |-> nodes, edges |-> edges] ELSE shownBefore
  /\ undone' = (undone \/ op \in {"undo", "redo", "undoNoop", "redoNoop"})

\* ---------------------------------------------------------- chart handlers
\* onSelectionChange: one node, one edge, or nothing is selected
onSelectionChange ==
  /\ Ready
  /\ \/ \E i \in DOMAIN nodes : selectedNode' = nodes[i] /\ selectedEdge' = Null
     \/ \E i \in DOMAIN edges : selectedNode' = Null /\ selectedEdge' = edges[i]
     \/ selectedNode' = Null /\ selectedEdge' = Null
  /\ UNCHANGED <<nodes, edges, nodeDialogOpen, nodeForm, history, historyIndex,
                 isHistoryAction, processSteps, workloadData, nodesIsSteps, clock,
                 pc, ops, lastOp, afterUndo, shownBefore, undone>>

handleAddNode(type) ==
  /\ CanEdit
  /\ LET last == nodes[Len(nodes)]
         newNode ==
           [id |-> clock, type |-> type,
            position |-> IF Len(nodes) > 0
                         THEN <<last.position[1] + 200, last.position[2]>>
                         ELSE <<100, 100>>,
            data |-> NewNodeData(type, Len(nodes) + 1)]
     IN  /\ Push
         /\ nodes' = Append(nodes, newNode)
         /\ edges' = IF Len(nodes) > 0
                     THEN Append(edges, [id |-> <<"edge", last.id, clock>>,
                                         source |-> last.id, target |-> clock])
                     ELSE edges
  /\ nodesIsSteps' = FALSE
  /\ clock' = clock + 1
  /\ pc' = "onChange"
  /\ Pushed("add")
  /\ UNCHANGED <<selectedNode, selectedEdge, nodeDialogOpen, nodeForm,
                 isHistoryAction, processSteps, workloadData>>

handleDuplicateNode ==
  /\ CanEdit
  /\ selectedNode # Null
  /\ Push
  /\ nodes' = Append(nodes,
                [id |-> clock, type |-> selectedNode.type,
                 position |-> <<selectedNode.position[1] + 50,
                                selectedNode.position[2] + 50>>,
                 data |-> selectedNode.data])
  /\ nodesIsSteps' = FALSE
  /\ clock' = clock + 1
  /\ pc' = "onChange"
  /\ Pushed("duplicate")
  /\ UNCHANGED <<edges, selectedNode, selectedEdge, nodeDialogOpen, nodeForm,
                 isHistoryAction, processSteps, workloadData>>

\* a delete that leaves the edges of the deleted node in place
handleDeleteNode_KeepsEdges ==
  /\ CanEdit
  /\ selectedNode # Null
  /\ Push
  /\ edges' = edges
  /\ nodes' = SelectSeq(nodes, LAMBDA n : n.id # selectedNode.id)
  /\ selectedNode' = Null
  /\ nodesIsSteps' = FALSE
  /\ pc' = "onChange"
  /\ Pushed("deleteNode")
  /\ UNCHANGED <<selectedEdge, nodeDialogOpen, nodeForm, isHistoryAction,
                 processSteps, workloadData, clock>>

handleDeleteNode ==
  /\ CanEdit
  /\ selectedNode # Null
  /\ Push
  /\ edges' = SelectSeq(edges, LAMBDA e : e.source # selectedNode.id
                                          /\ e.target # selectedNode.id)
  /\ nodes' = SelectSeq(nodes, LAMBDA n : n.id # selectedNode.id)
  /\ selectedNode' = Null
  /\ nodesIsSteps' = FALSE
  /\ pc' = "onChange"
  /\ Pushed("deleteNode")
  /\ UNCHANGED <<selectedEdge, nodeDialogOpen, nodeForm, isHistoryAction,
                 processSteps, workloadData, clock>>

handleDeleteEdge ==
  /\ CanEdit
  /\ selectedEdge # Null
  /\ Push
  /\ edges' = SelectSeq(edges, LAMBDA e : e.id # selectedEdge.id)
  /\ selectedEdge' = Null
  /\ pc' = "onChange"
  /\ Pushed("deleteEdge")
  /\ UNCHANGED <<nodes, selectedNode, nodeDialogOpen, nodeForm, isHistoryAction,
                 processSteps, workloadData, nodesIsSteps, clock>>

handleEditNode ==
  /\ Ready
  /\ selectedNode # Null
  /\ nodeForm' =
       [label |-> selectedNode.data.label,
        type |-> selectedNode.type,
        time |-> IF selectedNode.data.time = 0 THEN 10 ELSE selectedNode.data.time,
        timeUnit |-> selectedNode.data.timeUnit,
        frequency |-> IF selectedNode.data.frequency = 0 THEN 1
                      ELSE selectedNode.data.frequency,
        frequencyUnit |-> selectedNode.data.frequencyUnit]
  /\ nodeDialogOpen' = TRUE
  /\ UNCHANGED <<nodes, edges, selectedNode, selectedEdge, history, historyIndex,
                 isHistoryAction, processSteps, workloadData, nodesIsSteps, clock,
                 pc, ops, lastOp, afterUndo, shownBefore, undone>>

handleNodeFormChange(name, value) ==
  /\ pc = "idle" /\ nodeDialogOpen
  /\ nodeForm' = [nodeForm EXCEPT ![name] = value]
  /\ UNCHANGED <<nodes, edges, selectedNode, selectedEdge, nodeDialogOpen, history,
                 historyIndex, isHistoryAction, processSteps, workloadData,
                 nodesIsSteps, clock, pc, ops, lastOp, afterUndo, shownBefore, undone>>

handleCancelNodeDialog ==
  /\ pc = "idle" /\ nodeDialogOpen
  /\ nodeDialogOpen' = FALSE
  /\ UNCHANGED <<nodes, edges, selectedNode, selectedEdge, nodeForm, history,
                 historyIndex, isHistoryAction, processSteps, workloadData,
                 nodesIsSteps, clock, pc, ops, lastOp, afterUndo, shownBefore, undone>>

\* the node the dialog saves: the form's fields over the node's data
SavedNode(node, form) ==
  [node EXCEPT
     !.type = form.type,
     !.data = [label |-> form.label, time |-> form.time, timeUnit |-> form.timeUnit,
               frequency |-> form.frequency, frequencyUnit |-> form.frequencyUnit]]

handleSaveNodeDialog ==
  /\ pc = "idle" /\ nodeDialogOpen /\ ops < MaxOps
  /\ IF selectedNode # Null
     THEN /\ Push
          /\ nodes' = [i \in DOMAIN nodes |->
                         IF nodes[i].id = selectedNode.id
                         THEN SavedNode(nodes[i], nodeForm) ELSE nodes[i]]
          /\ nodesIsSteps' = FALSE
          /\ pc' = "onChange"
          /\ Pushed("save")
     ELSE /\ NotPushed("saveNothing")
          /\ UNCHANGED <<history, historyIndex, nodes, nodesIsSteps, pc>>
  /\ nodeDialogOpen' = FALSE
  /\ UNCHANGED <<edges, selectedNode, selectedEdge, nodeForm, isHistoryAction,
                 processSteps, workloadData, clock>>

\* reactflow's applyNodeChanges for one change: always a new array
applyNodeChanges(change, nds) ==
  CASE change.type = "remove" -> SelectSeq(nds, LAMBDA n : n.id # change.id)
    [] change.type = "position" ->
         [i \in DOMAIN nds |->
            IF nds[i].id = change.id
            THEN [nds[i] EXCEPT !.position = change.position] ELSE nds[i]]
    [] OTHER -> nds

\* reactflow's applyEdgeChanges for one change
applyEdgeChanges(change, eds) ==
  CASE change.type = "remove" -> SelectSeq(eds, LAMBDA e : e.id # change.id)
    [] OTHER -> eds

\* reactflow's addEdge: nothing is added when the connection exists already
addEdge(connection, eds) ==
  IF \E i \in DOMAIN eds : /\ eds[i].source = connection.source
                           /\ eds[i].target = connection.target
  THEN eds
  ELSE Append(eds, [id |-> <<"reactflow__edge", connection.source, connection.target>>,
                    source |-> connection.source, target |-> connection.target])

NodeChanges ==
  {[type |-> "remove", id |-> nodes[i].id, position |-> <<0, 0>>] : i \in DOMAIN nodes}
  \cup {[type |-> "position", id |-> nodes[i].id, position |-> p] :
          i \in DOMAIN nodes, p \in DragPositions}

EdgeChanges ==
  {[type |-> "remove", id |-> edges[i].id] : i \in DOMAIN edges}

Connections ==
  {c \in {[source |-> nodes[i].id, target |-> nodes[j].id] :
            i \in DOMAIN nodes, j \in DOMAIN nodes} : c.source # c.target}

onNodesChange(change) ==
  /\ CanEdit
  /\ IF ~isHistoryAction
     THEN Push /\ Pushed("nodesChange")
     ELSE UNCHANGED <<history, historyIndex>> /\ NotPushed("nodesChangeFlagged")
  /\ nodes' = applyNodeChanges(change, nodes)
  /\ isHistoryAction' = FALSE
  /\ nodesIsSteps' = FALSE
  /\ pc' = "onChange"
  /\ UNCHANGED <<edges, selectedNode, selectedEdge, nodeDialogOpen, nodeForm,
                 processSteps, workloadData, clock>>

onEdgesChange(change) ==
  /\ CanEdit
  /\ IF ~isHistoryAction
     THEN Push /\ Pushed("edgesChange")
     ELSE UNCHANGED <<history, historyIndex>> /\ NotPushed("edgesChangeFlagged")
  /\ edges' = applyEdgeChanges(change, edges)
  /\ isHistoryAction' = FALSE
  /\ pc' = "onChange"
  /\ UNCHANGED <<nodes, selectedNode, selectedEdge, nodeDialogOpen, nodeForm,
                 processSteps, workloadData, nodesIsSteps, clock>>

onConnect(connection) ==
  /\ CanEdit
  /\ Push
  /\ edges' = addEdge(connection, edges)
  /\ pc' = "onChange"
  /\ Pushed("connect")
  /\ UNCHANGED <<nodes, selectedNode, selectedEdge, nodeDialogOpen, nodeForm,
                 isHistoryAction, processSteps, workloadData, nodesIsSteps, clock>>

\* an undo whose guard and index are off by one
handleUndo_OffByOne ==
  /\ CanEdit
  /\ IF historyIndex >= 0
     THEN /\ isHistoryAction' = TRUE
          /\ nodes' = history[historyIndex + 1].nodes
          /\ edges' = history[historyIndex + 1].edges
          /\ historyIndex' = historyIndex - 1
          /\ nodesIsSteps' = FALSE
          /\ pc' = "onChange"
          /\ NotPushed("undo")
     ELSE /\ NotPushed("undoNoop")
          /\ UNCHANGED <<isHistoryAction, nodes, edges, historyIndex, nodesIsSteps, pc>>
  /\ UNCHANGED <<selectedNode, selectedEdge, nodeDialogOpen, nodeForm, history,
                 processSteps, workloadData, clock>>

handleUndo ==
  /\ CanEdit
  /\ IF historyIndex > 0
     THEN /\ isHistoryAction' = TRUE
          /\ nodes' = history[historyIndex].nodes
          /\ edges' = history[historyIndex].edges
          /\ historyIndex' = historyIndex - 1
          /\ nodesIsSteps' = FALSE
          /\ pc' = "onChange"
          /\ NotPushed("undo")
     ELSE /\ NotPushed("undoNoop")
          /\ UNCHANGED <<isHistoryAction, nodes, edges, historyIndex, nodesIsSteps, pc>>
  /\ UNCHANGED <<selectedNode, selectedEdge, nodeDialogOpen, nodeForm, history,
                 processSteps, workloadData, clock>>

handleRedo ==
  /\ CanEdit
  /\ IF historyIndex < Len(history) - 1
     THEN /\ isHistoryAction' = TRUE
          /\ nodes' = history[historyIndex + 2].nodes
          /\ edges' = history[historyIndex + 2].edges
          /\ historyIndex' = historyIndex + 1
          /\ nodesIsSteps' = FALSE
          /\ pc' = "onChange"
          /\ NotPushed("redo")
     ELSE /\ NotPushed("redoNoop")
          /\ UNCHANGED <<isHistoryAction, nodes, edges, historyIndex, nodesIsSteps, pc>>
  /\ UNCHANGED <<selectedNode, selectedEdge, nodeDialogOpen, nodeForm, history,
                 processSteps, workloadData, clock>>

\* ----------------------------------------------------------------- effects
\* ProcessChart's onChange effect, and App's handleProcessStepsChange with it:
\* setProcessSteps(nodes) re-renders App unless the array is the one it holds
onChangeEffect ==
  /\ pc = "onChange"
  /\ IF Len(nodes) > 0 /\ ~nodesIsSteps
     THEN /\ processSteps' = nodes
          /\ nodesIsSteps' = TRUE
          /\ pc' = "init"
     ELSE /\ pc' = "idle"
          /\ UNCHANGED <<processSteps, nodesIsSteps>>
  /\ UNCHANGED <<nodes, edges, selectedNode, selectedEdge, nodeDialogOpen, nodeForm,
                 history, historyIndex, isHistoryAction, workloadData, clock,
                 ops, lastOp, afterUndo, shownBefore, undone>>

\* ProcessChart's initialisation effect, run when initialNodes is a new array
initEffect ==
  /\ pc = "init"
  /\ IF Len(processSteps) > 0
     THEN /\ nodes' = processSteps
          /\ edges' = InitialEdges(processSteps)
          /\ history' = <<Snapshot(processSteps, InitialEdges(processSteps))>>
          /\ historyIndex' = 0
     ELSE UNCHANGED <<nodes, edges, history, historyIndex>>
  /\ pc' = "workload"
  /\ UNCHANGED <<selectedNode, selectedEdge, nodeDialogOpen, nodeForm,
                 isHistoryAction, processSteps, workloadData, nodesIsSteps, clock,
                 ops, lastOp, afterUndo, shownBefore, undone>>

\* App's workload effect, run when processSteps is a new array
workloadEffect ==
  /\ pc = "workload"
  /\ workloadData' = IF Len(processSteps) > 0
                     THEN calculateAnnualWorkload(processSteps, DefaultOptions)
                     ELSE workloadData
  /\ pc' = "idle"
  /\ UNCHANGED <<nodes, edges, selectedNode, selectedEdge, nodeDialogOpen, nodeForm,
                 history, historyIndex, isHistoryAction, processSteps, nodesIsSteps,
                 clock, ops, lastOp, afterUndo, shownBefore, undone>>

\* ------------------------------------------------------ ImprovementService
(***************************************************************************)
(* A label or keyword is a sequence of characters.  An object is a record  *)
(* that has a field only if the object has the property.  A call either    *)
(* returns a value or throws.                                              *)
(***************************************************************************)
Return(v) == [threw |-> FALSE, value |-> v]
Throw(e) == [threw |-> TRUE, error |-> e]

\* String.prototype.toLowerCase on the letters the model uses
toLowerCase(str) ==
  [i \in DOMAIN str |->
     CASE str[i] = "A" -> "a"
       [] str[i] = "B" -> "b"
       [] str[i] = "C" -> "c"
       [] OTHER -> str[i]]

\* String.prototype.includes
includes(str, sub) ==
  \E i \in 0..(Len(str) - Len(sub)) : SubSeq(str, i + 1, i + Len(sub)) = sub

\* the occurrences per year ImprovementService works with: 250, 52 and 12
AnnualFrequency(data) ==
  CASE data.frequencyUnit = "day" -> data.frequency * 250
    [] data.frequencyUnit = "week" -> data.frequency * 52
    [] data.frequencyUnit = "month" -> data.frequency * 12
    [] data.frequencyUnit = "year" -> data.frequency
    [] OTHER -> 0

\* ImprovementService.predictImprovementEffect
predictImprovementEffect(step, improvement) ==
  LET data == step.data
      timeReductionPercent ==
        IF "timeReductionPercent" \in DOMAIN improvement
        THEN improvement.timeReductionPercent ELSE 0
      minutesReduction == Q(data.time * timeReductionPercent, 100)
      annualFrequency == AnnualFrequency(data)
      annualMinutesSaved == QMul(minutesReduction, QInt(annualFrequency))
      annualHoursSaved == QMul(annualMinutesSaved, Q(1, 60))
      annualDaysSaved == QMul(annualHoursSaved, Q(1, 8))
  IN  [minutesPerOccurrence |-> minutesReduction,
       annualMinutes |-> annualMinutesSaved,
       annualHours |-> annualHoursSaved,
       annualDays |-> annualDaysSaved,
       percentReduction |-> timeReductionPercent]

\* the value of a property that is not there
Undefined == [undefined |-> TRUE]

\* `this` inside the service's methods: they are arrow functions written in
\* an object literal at the top level of an ES module, where `this` is undefined
This == Undefined

\* new Date().toISOString()
Now == "now"

\* ImprovementService.generateId: two draws of Math.random, as text
generateId(random) == <<random[1], random[2]>>

\* ImprovementService.generateDefaultSuggestions: one suggestion for every
\* kind of step and two for the step's own kind; random is the draws of the
\* three calls of generateId
generateDefaultSuggestions(step, random) ==
  LET type == step.type
      suggestion(name, keywords, percent, difficulty, cost, draw) ==
        [id |-> <<name, generateId(draw)>>, title |-> name, description |-> step.data.label,
         targetStepType |-> type, keywords |-> keywords,
         timeReductionPercent |-> percent, implementationDifficulty |-> difficulty,
         estimatedCost |-> cost]
      common ==
        <<suggestion("default-automation", <<>>, 70, "medium", "medium", random[1])>>
  IN  CASE type = "process" ->
             common \o
             <<suggestion("default-standardize", <<>>, 30, "low", "low", random[2]),
               suggestion("default-training", <<>>, 20, "medium", "medium", random[3])>>
        [] type = "inspection" ->
             common \o
             <<suggestion("default-criteria", <<>>, 40, "low", "low", random[2]),
               suggestion("default-auto-inspection", <<>>, 80, "high", "high", random[3])>>
        [] type = "transport" ->
             common \o
             <<suggestion("default-reduce-transport", <<>>, 50, "medium", "low", random[2]),
               suggestion("default-layout", <<>>, 40, "medium", "medium", random[3])>>
        [] type = "delay" ->
             common \o
             <<suggestion("default-approval", <<>>, 60, "medium", "low", random[2]),
               suggestion("default-notification", <<>>, 70, "medium", "medium", random[3])>>
        [] type = "storage" ->
             common \o
             <<suggestion("default-digital", <<>>, 50, "medium", "medium", random[2]),
               suggestion("default-inventory", <<>>, 30, "medium", "low", random[3])>>
        [] OTHER -> common

\* the entries of the database that suit the step: same kind, or a keyword
\* found in the label, letter case aside
similarImprovements(step, improvementDatabase) ==
  SelectSeq(improvementDatabase, LAMBDA improvement :
    \/ "targetStepType" \in DOMAIN improvement
         /\ improvement.targetStepType = step.type
    \/ "keywords" \in DOMAIN improvement
         /\ \E k \in DOMAIN improvement.keywords :
              includes(toLowerCase(step.data.label),
                       toLowerCase(improvement.keywords[k])))

\* { ...improvement, targetStepId, targetStepLabel, targetStepType }
BoundTo(step, improvement) ==
  [targetStepId |-> step.id, targetStepLabel |-> step.data.label,
   targetStepType |-> step.type] @@ improvement

\* ImprovementService.suggestImprovements: this.generateDefaultSuggestions is
\* read off `this`
suggestImprovements(step, improvementDatabase, random) ==
  LET similar == similarImprovements(step, improvementDatabase)
      suggestions == [i \in DOMAIN similar |-> BoundTo(step, similar[i])]
  IN  IF This = Undefined
      THEN Throw("TypeError")
      ELSE LET defaultSuggestions == generateDefaultSuggestions(step, random)
           IN  Return(suggestions \o
                      [i \in DOMAIN defaultSuggestions |->
                         BoundTo(step, defaultSuggestions[i])])

\* the id of an object as a list: empty when the object has none
IdOf(item) == IF "id" \in DOMAIN item THEN <<item.id>> ELSE <<>>

\* ImprovementService.saveImprovement: this.generateId is read off `this`
\* when the improvement has no id of its own
saveImprovement(improvement, database, random) ==
  LET found == {i \in DOMAIN database : IdOf(database[i]) = IdOf(improvement)}
  IN  IF found # {}
      THEN LET existingIndex == CHOOSE i \in found : \A j \in found : i <= j
           IN  Return([database EXCEPT ![existingIndex] =
                         [updatedAt |-> Now] @@ improvement @@ @])
      ELSE IF "id" \in DOMAIN improvement
           THEN Return(Append(database,
                              [createdAt |-> Now, updatedAt |-> Now] @@ improvement))
           ELSE IF This = Undefined
                THEN Throw("TypeError")
                ELSE Return(Append(database,
                                   [id |-> generateId(random), createdAt |-> Now,
                                    updatedAt |-> Now] @@ improvement))

\* ------------------------------------------------- ImprovementService state
VARIABLES
  targetStep,       \* the step handed to the service, or Null
  candidate,        \* the improvement handed to the service, or Null
  library,          \* the improvement database handed to the service
  predicted,        \* what predictImprovementEffect returned, or Null
  suggested,        \* how suggestImprovements ended, or Null
  saved             \* how saveImprovement ended, or Null

serviceVars == <<targetStep, candidate, library, predicted, suggested, saved>>

\* the inputs of the service
MaxLibrary == 2

ServiceSteps ==
  {[id |-> 1, type |-> "process",
    data |-> [label |-> <<"A", "b">>, time |-> 10, timeUnit |-> "minute",
              frequency |-> 1, frequencyUnit |-> "day"]],
   [id |-> 2, type |-> "transport",
    data |-> [label |-> <<"B">>, time |-> 1, timeUnit |-> "hour",
              frequency |-> 1, frequencyUnit |-> "week"]],
   [id |-> 3, type |-> "storage",
    data |-> [label |-> <<>>, time |-> 1, timeUnit |-> "day",
              frequency |-> 1, frequencyUnit |-> "month"]],
   [id |-> 4, type |-> "delay",
    data |-> [label |-> <<"c", "a", "b">>, time |-> 2, timeUnit |-> "minute",
              frequency |-> 3, frequencyUnit |-> "year"]]}

LibraryEntries ==
  {[id |-> 1, title |-> "t1", targetStepType |-> "process", keywords |-> <<>>,
    timeReductionPercent |-> 30],
   [id |-> 2, title |-> "t2", targetStepType |-> "delay",
    keywords |-> <<<<"a", "B">>>>, timeReductionPercent |-> 50],
   [id |-> 3, title |-> "t3", targetStepType |-> "inspection",
    timeReductionPercent |-> 100],
   [id |-> 4, title |-> "t4", targetStepType |-> "storage",
    keywords |-> <<<<"x">>, <<"b">>>>, timeReductionPercent |-> 20]}

\* improvements to predict and to save: entries of the library, one with no
\* id, and one with an id of its own and no percentage
Candidates ==
  LibraryEntries \cup
  {[title |-> "new", targetStepType |-> "process", timeReductionPercent |-> 100],
   [id |-> 9, title |-> "own", targetStepType |-> "transport", keywords |-> <<>>]}

Libraries == UNION {[1..k -> LibraryEntries] : k \in 0..MaxLibrary}

\* the draws of Math.random
Draws == <<<<"r1", "r2">>, <<"r3", "r4">>, <<"r5", "r6">>>>

ServiceIdle ==
  /\ targetStep = Null
  /\ candidate = Null
  /\ library = <<>>
  /\ predicted = Null
  /\ suggested = Null
  /\ saved = Null

ServiceInit ==
  /\ targetStep \in ServiceSteps
  /\ candidate \in Candidates
  /\ library \in Libraries
  /\ predicted = Null
  /\ suggested = Null
  /\ saved = Null

\* ImprovementService.predictImprovementEffect(targetStep, improvement) is called
callPredictImprovementEffect ==
  /\ predicted = Null
  /\ predicted' = predictImprovementEffect(targetStep, candidate)
  /\ UNCHANGED <<targetStep, candidate, library, suggested, saved>>

\* ImprovementService.suggestImprovements(target, improvementDatabase) is called
callSuggestImprovements ==
  /\ suggested = Null
  /\ suggested' = suggestImprovements(targetStep, library, Draws)
  /\ UNCHANGED <<targetStep, candidate, library, predicted, saved>>

\* ImprovementService.saveImprovement(improvement, improvementDatabase) is called
callSaveImprovement ==
  /\ saved = Null
  /\ saved' = saveImprovement(candidate, library, Draws[1])
  /\ UNCHANGED <<targetStep, candidate, library, predicted, suggested>>

\* ---------------------------------------------------------------- StepModel
\* an object with no property: {}
EmptyObject == [k \in {} |-> 0]

\* a kind that is no kind: '' is falsy
Truthy(text) == text # ""

\* a reference to the object or array at an address of the store
Ref(address) == [ref |-> address]

\* the object or array a reference points to
Deref(store, reference) == store[reference.ref]

\* StepModel.validateType
validateType(type) ==
  LET validTypes == {"process", "inspection", "transport", "delay", "storage"}
  IN  IF type \notin validTypes THEN "process" ELSE type

\* StepModel.getDefaultData; array is the address of the [] an inspection gets
getDefaultData(type, array) ==
  LET commonDefaults ==
        [time |-> 10, timeUnit |-> "minute", frequency |-> 1, frequencyUnit |-> "day",
         responsible |-> "", tools |-> "", notes |-> ""]
  IN  CASE type = "process" ->
             [label |-> "process", category |-> "value-added"] @@ commonDefaults
        [] type = "inspection" ->
             [label |-> "inspection", category |-> "non-value-added",
              checkType |-> "quality", checkItems |-> Ref(array)] @@ commonDefaults
        [] type = "transport" ->
             [label |-> "transport", category |-> "non-value-added",
              distance |-> 0, distanceUnit |-> "m"] @@ commonDefaults
        [] type = "delay" ->
             [label |-> "delay", category |-> "waste", reason |-> "",
              priority |-> "medium"] @@ commonDefaults
        [] type = "storage" ->
             [label |-> "storage", category |-> "non-value-added",
              storageType |-> "temporary", location |-> ""] @@ commonDefaults
        [] OTHER -> [label |-> "step"] @@ commonDefaults

\* the store after getDefaultData(type): an inspection's defaults hold a new array
WithDefaultArray(store, type) ==
  IF type = "inspection" THEN Append(store, <<>>) ELSE store

\* StepModel.create; position refers to the caller's object, uuid is what
\* uuidv4() returns
create(store, type, data, position, uuid) ==
  LET validType == validateType(type)
      s1 == WithDefaultArray(store, validType)
      defaultData == getDefaultData(validType, Len(s1))
      given(k) == IF k \in DOMAIN data THEN data[k] ELSE defaultData[k]
      truthy(k) == IF k \in DOMAIN data /\ Truthy(data[k])
                   THEN data[k] ELSE defaultData[k]
      mergedData ==
        [label |-> truthy("label"),
         time |-> given("time"),
         timeUnit |-> truthy("timeUnit"),
         frequency |-> given("frequency"),
         frequencyUnit |-> truthy("frequencyUnit")] @@ data @@ defaultData
      s2 == Append(s1, mergedData)
  IN  [store |-> s2,
       step |-> [id |-> IF "id" \in DOMAIN data THEN data.id ELSE <<"step", uuid>>,
                 type |-> validType,
                 position |-> position,
                 data |-> Ref(Len(s2))]]

\* StepModel.update
update(store, step, updates) ==
  LET s1 == IF "position" \in DOMAIN updates
            THEN Append(store, updates.position @@ Deref(store, step.position))
            ELSE store
      position == IF "position" \in DOMAIN updates THEN Ref(Len(s1)) ELSE step.position
      s2 == IF "data" \in DOMAIN updates
            THEN Append(s1, updates.data @@ Deref(store, step.data))
            ELSE s1
      data == IF "data" \in DOMAIN updates THEN Ref(Len(s2)) ELSE step.data
      changesType ==
        "type" \in DOMAIN updates /\ Truthy(updates.type) /\ updates.type # step.type
      type == IF changesType THEN validateType(updates.type)
              ELSE IF "type" \in DOMAIN updates THEN updates.type ELSE step.type
      s3 == IF changesType THEN WithDefaultArray(s2, type) ELSE s2
      typeDefaults == getDefaultData(type, Len(s3))
      held == Deref(s2, data)
      s4 == IF changesType
            THEN Append(s3, [label |-> held.label, time |-> held.time,
                             timeUnit |-> held.timeUnit, frequency |-> held.frequency,
                             frequencyUnit |-> held.frequencyUnit,
                             responsible |-> held.responsible, tools |-> held.tools,
                             notes |-> held.notes] @@ typeDefaults)
            ELSE s3
      updatedData == IF changesType THEN Ref(Len(s4)) ELSE data
  IN  [store |-> s4,
       step |-> (IF "id" \in DOMAIN updates THEN [id |-> updates.id] ELSE EmptyObject)
                @@ (IF "selected" \in DOMAIN updates
                    THEN [selected |-> updates.selected] ELSE EmptyObject)
                @@ (IF "dragging" \in DOMAIN updates
                    THEN [dragging |-> updates.dragging] ELSE EmptyObject)
                @@ [type |-> type, position |-> position, data |-> updatedData]
                @@ step]

\* StepModel.clone; uuid is what uuidv4() returns
clone(store, step, overrides, uuid) ==
  LET s1 == Append(store, Deref(store, step.position))
      p1 == Ref(Len(s1))
      s2 == Append(s1, Deref(store, step.data))
      d1 == Ref(Len(s2))
      s3 == IF "position" \in DOMAIN overrides
            THEN Append(s2, overrides.position @@ Deref(s2, p1)) ELSE s2
      p2 == IF "position" \in DOMAIN overrides THEN Ref(Len(s3)) ELSE p1
      s4 == IF "data" \in DOMAIN overrides
            THEN Append(s3, overrides.data @@ Deref(s3, d1)) ELSE s3
      d2 == IF "data" \in DOMAIN overrides THEN Ref(Len(s4)) ELSE d1
      clonedStep == [id |-> <<"step", uuid>>, position |-> p2, data |-> d2] @@ step
  IN  [store |-> s4,
       step |-> IF "type" \in DOMAIN overrides /\ Truthy(overrides.type)
                THEN [clonedStep EXCEPT !.type = validateType(overrides.type)]
                ELSE clonedStep]

\* a step as a value: its position and data, and the array in its data, read
\* through their references
StepValue(store, step) ==
  LET data == Deref(store, step.data)
  IN  [step EXCEPT
         !.position = Deref(store, step.position),
         !.data = IF "checkItems" \in DOMAIN data
                  THEN [data EXCEPT !.checkItems = Deref(store, data.checkItems)]
                  ELSE data]

\* ---------------------------------------------------------- StepModel state
VARIABLES
  objects,          \* the objects and arrays StepModel's steps refer to
  current,          \* the step StepModel returned last, or Null
  previous,         \* the step that call was given, or Null
  modelOp,          \* the call made last: "none", "create", "update", "clone", "write"
  calls             \* the number of StepModel calls made, which numbers the ids of uuidv4()

modelVars == <<objects, current, previous, modelOp, calls>>

ModelIdle ==
  objects = <<>> /\ current = Null /\ previous = Null /\ modelOp = "none" /\ calls = 0

\* the number of StepModel calls a run makes
MaxModelOps == 3

\* the inputs of StepModel
RequestedTypes == {"process", "inspection", "bogus", ""}

CreateData ==
  {EmptyObject,
   [label |-> "", time |-> 0],
   [id |-> <<"given", 1>>, label |-> "L", frequencyUnit |-> "week"]}

Updates ==
  {EmptyObject,
   [type |-> "delay"],
   [type |-> "inspection"],
   [type |-> "bogus"],
   [type |-> ""],
   [id |-> <<"other", 1>>],
   [data |-> [time |-> 3]],
   [position |-> [x |-> 5]],
   [selected |-> TRUE, dragging |-> FALSE]}

Overrides ==
  {EmptyObject,
   [type |-> "storage"],
   [type |-> "bogus"],
   [type |-> ""],
   [data |-> [label |-> "copy"]],
   [position |-> [y |-> 7]]}

\* the parts of a cloned step its holder writes to
Writes == {"position", "label", "checkItems"}

\* StepModel.create(type, data) is called; position is its default, { x: 0, y: 0 }
callCreate(type, data) ==
  /\ current = Null
  /\ LET withPosition == Append(objects, [x |-> 0, y |-> 0])
         made == create(withPosition, type, data, Ref(Len(withPosition)), calls + 1)
     IN  /\ objects' = made.store
         /\ current' = made.step
  /\ previous' = Null
  /\ modelOp' = "create"
  /\ calls' = calls + 1

\* StepModel.update(step, updates) is called on the step in hand
callUpdate(updates) ==
  /\ current # Null
  /\ calls < MaxModelOps
  /\ LET made == update(objects, current, updates)
     IN  /\ objects' = made.store
         /\ current' = made.step
  /\ previous' = current
  /\ modelOp' = "update"
  /\ calls' = calls + 1

\* StepModel.clone(step, overrides) is called on the step in hand
callClone(overrides) ==
  /\ current # Null
  /\ calls < MaxModelOps
  /\ LET made == clone(objects, current, overrides, calls + 1)
     IN  /\ objects' = made.store
         /\ current' = made.step
  /\ previous' = current
  /\ modelOp' = "clone"
  /\ calls' = calls + 1

\* the holder of a step StepModel.clone returned writes to a part of it:
\* clonedStep.position.x = 99, clonedStep.data.label = 'changed' or
\* clonedStep.data.checkItems.push('item')
writeToClone(part) ==
  /\ modelOp = "clone"
  /\ LET data == Deref(objects, current.data)
     IN  CASE part = "position" ->
                objects' = [objects EXCEPT ![current.position.ref].x = 99]
           [] part = "label" ->
                objects' = [objects EXCEPT ![current.data.ref].label = "changed"]
           [] part = "checkItems" ->
                /\ "checkItems" \in DOMAIN data
                /\ objects' = [objects EXCEPT ![data.checkItems.ref] = Append(@, "item")]
  /\ modelOp' = "write"
  /\ UNCHANGED <<current, previous, calls>>

\* ------------------------------------------------------- simulation state
VARIABLES
  steps,            \* the steps the workload was computed from
  options,          \* the options it was computed with
  improvements,     \* the candidate list handed to the simulation
  heap,             \* the objects that exist
  currentWorkload,  \* the address of the workload handed to the simulation, 0 for none
  effect            \* what calculateImprovementEffect returned, or Null

calcVars == <<steps, options, improvements, heap, currentWorkload, effect>>


\* the inputs of the simulation
MaxSteps == 2
MaxImprovements == 2
Percents == {30, 100}

StepShapes ==
  {[type |-> "process", time |-> 10, timeUnit |-> "minute", frequencyUnit |-> "day"],
   [type |-> "delay", time |-> 1, timeUnit |-> "minute", frequencyUnit |-> "year"],
   [type |-> "inspection", time |-> 0, timeUnit |-> "minute", frequencyUnit |-> "day"],
   [type |-> "transport", time |-> 1, timeUnit |-> "hour", frequencyUnit |-> "week"],
   [type |-> "storage", time |-> 6, timeUnit |-> "minute", frequencyUnit |-> "year"],
   [type |-> "storage", time |-> 13, timeUnit |-> "minute", frequencyUnit |-> "year"]}

StepLists ==
  UNION {{[i \in 1..k |->
             [id |-> i, type |-> sh[i].type,
              data |-> [label |-> <<sh[i].type, i>>, time |-> sh[i].time,
                        timeUnit |-> sh[i].timeUnit, frequency |-> 1,
                        frequencyUnit |-> sh[i].frequencyUnit]]] :
            sh \in [1..k -> StepShapes]} : k \in 0..MaxSteps}

OptionChoices == {DefaultOptions, [DefaultOptions EXCEPT !.hoursPerDay = 4]}

\* the ids a candidate may name: 0 is the id of no step
Targets == {0, 1, 2}

Improvements ==
  [targetStepId : Targets, timeReductionPercent : Percents]

ImprovementLists == UNION {[1..k -> Improvements] : k \in 0..MaxImprovements}

CalcIdle ==
  /\ steps = <<>>
  /\ options = DefaultOptions
  /\ improvements = <<>>
  /\ heap = <<>>
  /\ currentWorkload = 0
  /\ effect = Null

CalcInit ==
  /\ steps \in StepLists
  /\ options \in OptionChoices
  /\ improvements \in ImprovementLists
  /\ heap = AllocWorkload(<<>>, calculateAnnualWorkload(steps, options))
  /\ currentWorkload = 1
  /\ effect = Null

\* the inputs of the annualisation
MaxAnnualSteps == 3

\* no config at all: calculateAnnualWorkload(steps)
NoOptions == [k \in {} |-> 0]

AnnualOptionChoices ==
  {NoOptions,
   [hoursPerDay |-> 4],
   [businessDaysPerYear |-> 200, businessWeeksPerYear |-> 50,
    businessMonthsPerYear |-> 10, hoursPerDay |-> 6]}

\* steps by kind, with every time unit and every frequency unit, and steps
\* whose time or frequency is 0 or not there
AnnualShapes ==
  {[type |-> "process",
    data |-> [time |-> 10, timeUnit |-> "minute", frequency |-> 1, frequencyUnit |-> "day"]],
   [type |-> "delay",
    data |-> [time |-> 90, timeUnit |-> "minute", frequency |-> 1, frequencyUnit |-> "day"]],
   [type |-> "transport",
    data |-> [time |-> 5, timeUnit |-> "minute", frequency |-> 2, frequencyUnit |-> "day"]],
   [type |-> "inspection",
    data |-> [time |-> 1, timeUnit |-> "hour", frequency |-> 1, frequencyUnit |-> "week"]],
   [type |-> "storage",
    data |-> [time |-> 1, timeUnit |-> "day", frequency |-> 1, frequencyUnit |-> "month"]],
   [type |-> "process",
    data |-> [time |-> 2, timeUnit |-> "minute", frequency |-> 1, frequencyUnit |-> "year"]],
   [type |-> "inspection",
    data |-> [time |-> 0, timeUnit |-> "minute", frequency |-> 1, frequencyUnit |-> "day"]],
   [type |-> "transport",
    data |-> [timeUnit |-> "minute", frequency |-> 1, frequencyUnit |-> "day"]],
   [type |-> "delay",
    data |-> [time |-> 10, timeUnit |-> "hour", frequency |-> 0, frequencyUnit |-> "week"]],
   [type |-> "storage",
    data |-> [time |-> 10, timeUnit |-> "day", frequencyUnit |-> "month"]]}

AnnualStepLists ==
  UNION {{[i \in 1..k |->
             [id |-> i, type |-> sh[i].type,
              data |-> [label |-> <<sh[i].type, i>>] @@ sh[i].data]] :
            sh \in [1..k -> AnnualShapes]} : k \in 0..MaxAnnualSteps}

\* steps and config on which calculateAnnualWorkload has not been called yet
InitAnnual ==
  /\ ChartInit
  /\ ServiceIdle
  /\ ModelIdle
  /\ steps \in AnnualStepLists
  /\ options \in AnnualOptionChoices
  /\ improvements = <<>>
  /\ heap = <<>>
  /\ currentWorkload = 0
  /\ effect = Null

\* TimeCalculationService.calculateAnnualWorkload(steps, options) is called
\* and the summary it returns is kept
callCalculateAnnualWorkload ==
  /\ currentWorkload = 0
  /\ heap' = AllocWorkload(heap, calculateAnnualWorkload(steps, options))
  /\ currentWorkload' = Len(heap) + 1
  /\ UNCHANGED <<steps, options, improvements, effect>>

\* App.handleApplyImprovements: the simulation is run on the workload
handleApplyImprovements ==
  /\ effect = Null
  /\ LET r == calculateImprovementEffect(heap, currentWorkload, improvements)
     IN  /\ heap' = r.heap
         /\ effect' = [before |-> r.before, after |-> r.after, savings |-> r.savings]
  /\ UNCHANGED <<steps, options, improvements, currentWorkload>>

vars == <<chartVars, calcVars, serviceVars, modelVars>>

ChartNext ==
  \/ onSelectionChange /\ UNCHANGED <<calcVars, serviceVars, modelVars>>
  \/ (\E type \in NodeTypes : handleAddNode(type)) /\ UNCHANGED <<calcVars, serviceVars, modelVars>>
  \/ handleDuplicateNode /\ UNCHANGED <<calcVars, serviceVars, modelVars>>
  \/ handleDeleteNode /\ UNCHANGED <<calcVars, serviceVars, modelVars>>
  \/ handleDeleteEdge /\ UNCHANGED <<calcVars, serviceVars, modelVars>>
  \/ handleEditNode /\ UNCHANGED <<calcVars, serviceVars, modelVars>>
  \/ (\E c \in FormChanges : handleNodeFormChange(c[1], c[2])) /\ UNCHANGED <<calcVars, serviceVars, modelVars>>
  \/ handleCancelNodeDialog /\ UNCHANGED <<calcVars, serviceVars, modelVars>>
  \/ handleSaveNodeDialog /\ UNCHANGED <<calcVars, serviceVars, modelVars>>
  \/ (\E change \in NodeChanges : onNodesChange(change)) /\ UNCHANGED <<calcVars, serviceVars, modelVars>>
  \/ (\E change \in EdgeChanges : onEdgesChange(change)) /\ UNCHANGED <<calcVars, serviceVars, modelVars>>
  \/ (\E connection \in Connections : onConnect(connection)) /\ UNCHANGED <<calcVars, serviceVars, modelVars>>
  \/ handleUndo /\ UNCHANGED <<calcVars, serviceVars, modelVars>>
  \/ handleRedo /\ UNCHANGED <<calcVars, serviceVars, modelVars>>
  \/ onChangeEffect /\ UNCHANGED <<calcVars, serviceVars, modelVars>>
  \/ initEffect /\ UNCHANGED <<calcVars, serviceVars, modelVars>>
  \/ workloadEffect /\ UNCHANGED <<calcVars, serviceVars, modelVars>>

CalcNext == handleApplyImprovements /\ UNCHANGED <<chartVars, serviceVars, modelVars>>

AnnualNext == callCalculateAnnualWorkload /\ UNCHANGED <<chartVars, serviceVars, modelVars>>

ServiceNext ==
  \/ callPredictImprovementEffect /\ UNCHANGED <<chartVars, calcVars, modelVars>>
  \/ callSuggestImprovements /\ UNCHANGED <<chartVars, calcVars, modelVars>>
  \/ callSaveImprovement /\ UNCHANGED <<chartVars, calcVars, modelVars>>

\* the chart editor, before any simulation
Init == ChartInit /\ CalcIdle /\ ServiceIdle /\ ModelIdle

\* the simulation, in a freshly constructed editor
InitCalc == ChartInit /\ CalcInit /\ ServiceIdle /\ ModelIdle

\* the chart editor
Spec == Init /\ [][ChartNext]_vars

\* the simulation, on every workload and candidate list within the bounds
SpecCalc == InitCalc /\ [][CalcNext]_vars

\* the annualisation, on every step list and config within the bounds
SpecAnnual == InitAnnual /\ [][AnnualNext]_vars

\* the service, before any call
InitService == ChartInit /\ CalcIdle /\ ServiceInit /\ ModelIdle

\* ImprovementService, on every step, improvement and database within the bounds
SpecService == InitService /\ [][ServiceNext]_vars

\* the chart under add, duplicate, delete, connect, undo and redo alone
ListedNext ==
  \/ onSelectionChange /\ UNCHANGED <<calcVars, serviceVars, modelVars>>
  \/ (\E type \in NodeTypes : handleAddNode(type))
       /\ UNCHANGED <<calcVars, serviceVars, modelVars>>
  \/ handleDuplicateNode /\ UNCHANGED <<calcVars, serviceVars, modelVars>>
  \/ handleDeleteNode /\ UNCHANGED <<calcVars, serviceVars, modelVars>>
  \/ handleDeleteEdge /\ UNCHANGED <<calcVars, serviceVars, modelVars>>
  \/ (\E connection \in Connections : onConnect(connection))
       /\ UNCHANGED <<calcVars, serviceVars, modelVars>>
  \/ handleUndo /\ UNCHANGED <<calcVars, serviceVars, modelVars>>
  \/ handleRedo /\ UNCHANGED <<calcVars, serviceVars, modelVars>>
  \/ onChangeEffect /\ UNCHANGED <<calcVars, serviceVars, modelVars>>
  \/ initEffect /\ UNCHANGED <<calcVars, serviceVars, modelVars>>
  \/ workloadEffect /\ UNCHANGED <<calcVars, serviceVars, modelVars>>

InitListed == ChartInit /\ CalcIdle /\ ServiceIdle /\ ModelIdle

SpecListed == InitListed /\ [][ListedNext]_vars

ModelNext ==
  \/ (\E type \in RequestedTypes, data \in CreateData : callCreate(type, data))
       /\ UNCHANGED <<chartVars, calcVars, serviceVars>>
  \/ (\E updates \in Updates : callUpdate(updates))
       /\ UNCHANGED <<chartVars, calcVars, serviceVars>>
  \/ (\E overrides \in Overrides : callClone(overrides))
       /\ UNCHANGED <<chartVars, calcVars, serviceVars>>
  \/ (\E part \in Writes : writeToClone(part))
       /\ UNCHANGED <<chartVars, calcVars, serviceVars>>

InitModel == ChartInit /\ CalcIdle /\ ServiceIdle /\ ModelIdle

\* calls of StepModel on one step
SpecModel == InitModel /\ [][ModelNext]_vars

\* ------------------------------------------------------------------- claims
\* the snapshot on screen
Displayed == Snapshot(nodes, edges)

\* every handler that pushes a history entry
IsPush ==
  \/ \E type \in NodeTypes : handleAddNode(type)
  \/ handleDuplicateNode
  \/ handleDeleteNode
  \/ handleDeleteEdge
  \/ selectedNode # Null /\ handleSaveNodeDialog
  \/ \E connection \in Connections : onConnect(connection)
  \/ ~isHistoryAction /\ \E change \in NodeChanges : onNodesChange(change)
  \/ ~isHistoryAction /\ \E change \in EdgeChanges : onEdgesChange(change)

PushOps ==
  {"add", "duplicate", "deleteNode", "deleteEdge", "save", "connect",
   "nodesChange", "edgesChange"}

\* C1: whenever the chart is at rest with a non-empty history, the entry under
\* the cursor is the snapshot on screen.
C1_HistoryAtCursorIsDisplayed ==
  (pc = "idle" /\ history # <<>>) => history[historyIndex + 1] = Displayed

C3_BoundaryUndoRedoAreNoOps ==
  [][(\/ handleUndo /\ historyIndex <= 0
      \/ handleRedo /\ historyIndex >= Len(history) - 1)
       => UNCHANGED <<history, historyIndex, nodes, edges>>]_vars

\* C3 witness: an undo was asked for at the first entry of a non-empty history
C3_Witness ==
  lastOp = "undoNoop" /\ historyIndex = 0 /\ history # <<>> /\ nodes # <<>>

C5_WorkloadFollowsEdits ==
  (pc = "idle" /\ lastOp \in {"add", "duplicate", "deleteNode", "save", "undo", "redo"})
    => workloadData = calculateAnnualWorkload(nodes, DefaultOptions)

\* the workload handed to the simulation, as calculateAnnualWorkload returned it
InputHeap == AllocWorkload(<<>>, calculateAnnualWorkload(steps, options))

\* a returned effect by value: the summaries it names and its savings
EffectValue(h, e) ==
  [before |-> WorkloadAt(h, e.before), after |-> WorkloadAt(h, e.after),
   savings |-> e.savings]

\* the candidates whose targetStepId is the id of an entry of stepDetails
Bound(list) ==
  SelectSeq(list, LAMBDA c :
    \E i \in DOMAIN WorkloadAt(InputHeap, 1).stepDetails :
      WorkloadAt(InputHeap, 1).stepDetails[i].id = c.targetStepId)

\* the position in stepDetails of the entry a candidate names, 0 for none
EntryOf(c) ==
  LET details == WorkloadAt(InputHeap, 1).stepDetails
      found == {i \in DOMAIN details : details[i].id = c.targetStepId}
  IN  IF found = {} THEN 0 ELSE CHOOSE i \in found : \A j \in found : i <= j

\* the simulation ran on one candidate that takes 100 percent off an entry
FullReductionRan ==
  /\ effect # Null
  /\ Len(improvements) = 1
  /\ improvements[1].timeReductionPercent = 100
  /\ EntryOf(improvements[1]) # 0

\* C6: `after` is another object than the input workload and than `before`,
\* and for the empty candidate list it has the value of the input workload.
C6_AfterIsDistinctCopy ==
  effect # Null =>
    /\ effect.after # currentWorkload
    /\ effect.after # effect.before
    /\ improvements = <<>> =>
         WorkloadAt(heap, effect.after) = calculateAnnualWorkload(steps, options)

\* C7: for a non-empty candidate list every object of the input workload has
\* the value it had before the call, and `before` is that workload.
C7_InputIsNotModified ==
  (effect # Null /\ improvements # <<>>) =>
    /\ SubSeq(heap, 1, Len(InputHeap)) = InputHeap
    /\ effect.before = currentWorkload
    /\ WorkloadAt(heap, effect.before) = calculateAnnualWorkload(steps, options)

\* C7 witness: a candidate was applied, so `after` differs from the input
C7_Witness ==
  /\ effect # Null
  /\ Bound(improvements) # <<>>
  /\ WorkloadAt(heap, effect.after).stepDetails
       # calculateAnnualWorkload(steps, options).stepDetails

\* C8: candidates that name no entry of stepDetails are skipped: the result
\* has the value of the result for the list without them.
C8_StaleCandidatesAreSkipped ==
  effect # Null =>
    LET r == calculateImprovementEffect(InputHeap, 1, Bound(improvements))
    IN  EffectValue(heap, effect) = EffectValue(r.heap, r)

\* C9: with no hours in `before`, the percentage saved is 0.
C9_PercentZeroWithoutHours ==
  (effect # Null /\ WorkloadAt(heap, effect.before).totalHours = 0) =>
    effect.savings.percent = Zero

\* C10 as stated: taking 100 percent off an entry leaves its annualHours at 0
\* and totalHours no greater, and smaller whenever the entry had minutes.
C10_FullReductionStrictForAnyMinutes ==
  FullReductionRan =>
    LET i == EntryOf(improvements[1])
        before == WorkloadAt(heap, effect.before)
        after == WorkloadAt(heap, effect.after)
    IN  /\ after.stepDetails[i].annualHours = 0
        /\ after.totalHours <= before.totalHours
        /\ QLess(QInt(0), before.stepDetails[i].annualMinutes) =>
             after.totalHours < before.totalHours

\* C10: taking 100 percent off an entry leaves its annualHours at 0 and
\* totalHours no greater, and smaller whenever the entry had at least 6
\* minutes, a tenth of an hour.
C10_FullReductionStrictFromSixMinutes ==
  FullReductionRan =>
    LET i == EntryOf(improvements[1])
        before == WorkloadAt(heap, effect.before)
        after == WorkloadAt(heap, effect.after)
    IN  /\ after.stepDetails[i].annualHours = 0
        /\ after.totalHours <= before.totalHours
        /\ ~QLess(before.stepDetails[i].annualMinutes, QInt(6)) =>
             after.totalHours < before.totalHours

\* C10 witness: 100 percent was taken off an entry of exactly 6 minutes, one
\* of two entries, and totalHours went down
C10_Witness ==
  /\ FullReductionRan
  /\ Len(WorkloadAt(heap, effect.before).stepDetails) = 2
  /\ WorkloadAt(heap, effect.before).stepDetails[EntryOf(improvements[1])].annualMinutes
       = QInt(6)
  /\ WorkloadAt(heap, effect.after).totalHours
       < WorkloadAt(heap, effect.before).totalHours

\* the summary calculateAnnualWorkload returned
Returned == WorkloadAt(heap, currentWorkload)

\* a step whose duration and recurrence are both there and positive
PositiveStep(step) ==
  /\ "time" \in DOMAIN step.data /\ "frequency" \in DOMAIN step.data
  /\ ~(step.data.time <= 0) /\ ~(step.data.frequency <= 0)

\* C11: steps whose duration or recurrence is missing or <= 0 have no entry in
\* stepDetails and the summary is the one of the list without them.
C11_InvalidStepsAreSkipped ==
  currentWorkload # 0 =>
    /\ {Returned.stepDetails[i].id : i \in DOMAIN Returned.stepDetails}
         = {steps[i].id : i \in {j \in DOMAIN steps : PositiveStep(steps[j])}}
    /\ Returned = calculateAnnualWorkload(SelectSeq(steps, PositiveStep), options)

\* C11 witness: a list with a step that has no time, a step of time 0 or
\* frequency 0, and a step that counts, has been annualised
C11_Witness ==
  /\ currentWorkload # 0
  /\ \E i \in DOMAIN steps : "time" \notin DOMAIN steps[i].data
  /\ \E i \in DOMAIN steps :
       /\ "time" \in DOMAIN steps[i].data /\ "frequency" \in DOMAIN steps[i].data
       /\ (steps[i].data.time = 0 \/ steps[i].data.frequency = 0)
  /\ \E i \in DOMAIN steps : PositiveStep(steps[i])
  /\ Returned.totalHours > 0

\* the sum of the annualMinutes of a list of entries, which are whole numbers
RECURSIVE SumOfAnnualMinutes(_)
SumOfAnnualMinutes(details) ==
  IF details = <<>> THEN 0
  ELSE Head(details).annualMinutes.num + SumOfAnnualMinutes(Tail(details))

\* Work 10 min once a day, Wait 90 min once a day, Transport 5 min twice a day
ExampleSteps ==
  <<[id |-> 1, type |-> "process",
     data |-> [label |-> <<"process", 1>>, time |-> 10, timeUnit |-> "minute",
               frequency |-> 1, frequencyUnit |-> "day"]],
    [id |-> 2, type |-> "delay",
     data |-> [label |-> <<"delay", 2>>, time |-> 90, timeUnit |-> "minute",
               frequency |-> 1, frequencyUnit |-> "day"]],
    [id |-> 3, type |-> "transport",
     data |-> [label |-> <<"transport", 3>>, time |-> 5, timeUnit |-> "minute",
               frequency |-> 2, frequencyUnit |-> "day"]]>>

\* C12: every entry records duration and recurrence converted by the unit
\* tables, with 250/52/12/8 for what the config leaves out, and their product;
\* totalMinutes is the sum of the entries and totalHours is that sum over 60
\* to one decimal; the three example steps give 458.3 hours.
C12_UnitTablesAndTotals ==
  currentWorkload # 0 =>
    LET given(k, default) == IF k \in DOMAIN options THEN options[k] ELSE default
        hoursPerDay == given("hoursPerDay", 8)
        perMinute(unit) ==
          CASE unit = "minute" -> 1
            [] unit = "hour" -> 60
            [] unit = "day" -> hoursPerDay * 60
        perYear(unit) ==
          CASE unit = "day" -> given("businessDaysPerYear", 250)
            [] unit = "week" -> given("businessWeeksPerYear", 52)
            [] unit = "month" -> given("businessMonthsPerYear", 12)
            [] unit = "year" -> 1
        total == SumOfAnnualMinutes(Returned.stepDetails)
    IN  /\ \A i \in DOMAIN Returned.stepDetails :
             LET entry == Returned.stepDetails[i]
                 data == steps[entry.id].data
             IN  /\ entry.minutesPerOccurrence = data.time * perMinute(data.timeUnit)
                 /\ entry.occurrencesPerYear = data.frequency * perYear(data.frequencyUnit)
                 /\ entry.annualMinutes
                      = QInt(entry.minutesPerOccurrence * entry.occurrencesPerYear)
        /\ Returned.totalMinutes = QInt(total)
        /\ Returned.totalHours = (total + 3) \div 6
        /\ (steps = ExampleSteps /\ options = NoOptions) => Returned.totalHours = 4583

\* C12 witness: the three example steps have been annualised with no config
C12_Witness ==
  /\ currentWorkload # 0
  /\ steps = ExampleSteps
  /\ options = NoOptions
  /\ Len(Returned.stepDetails) = 3

\* the sum of the annualHours, in tenths, of the entries of one kind
RECURSIVE SumOfAnnualHours(_, _)
SumOfAnnualHours(details, kind) ==
  IF details = <<>> THEN 0
  ELSE (IF Head(details).type = kind THEN Head(details).annualHours ELSE 0)
         + SumOfAnnualHours(Tail(details), kind)

\* C13: every category total is the sum of the rounded annualHours of the
\* entries of that kind.
C13_CategoryTotalIsSumOfRoundedHours ==
  currentWorkload # 0 =>
    \A kind \in CATEGORIES :
      Returned.categorySummary[kind] = SumOfAnnualHours(Returned.stepDetails, kind)

\* C14: in the summary calculateAnnualWorkload returned and in the `after`
\* derived from it, totalDays is totalHours over the configured hoursPerDay,
\* to one decimal.
C14_TotalDaysUsesConfiguredHoursPerDay ==
  effect # Null =>
    LET hoursPerDay == options.hoursPerDay
        days(hours) == (2 * hours + hoursPerDay) \div (2 * hoursPerDay)
        before == WorkloadAt(heap, effect.before)
        after == WorkloadAt(heap, effect.after)
    IN  /\ before.totalDays = days(before.totalHours)
        /\ after.totalDays = days(after.totalHours)

\* C15: the totals of `after` are those of its own entries: totalMinutes is
\* the sum of their annualMinutes and every category total is the sum of the
\* annualMinutes of its kind over 60, to one decimal.
C15_AfterTotalsDeriveFromEntries ==
  effect # Null =>
    LET after == WorkloadAt(heap, effect.after)
    IN  /\ after.totalMinutes = SumMinutes(after.stepDetails, CATEGORIES)
        /\ \A kind \in CATEGORIES :
             after.categorySummary[kind]
               = RoundHours(SumMinutes(after.stepDetails, {kind}))

\* C16: the annualMinutes predictImprovementEffect returns is the percentage
\* of the annualMinutes calculateAnnualWorkload gives the step with no config.
C16_PredictionUsesTheSameConversion ==
  predicted # Null =>
    LET workload == calculateAnnualWorkload(<<targetStep>>, NoOptions)
    IN  predicted.annualMinutes
          = QMul(workload.stepDetails[1].annualMinutes,
                 Q(predicted.percentReduction, 100))

\* the entries of the library that suit the step, by the words of C17
Suits(item) ==
  \/ item.targetStepType = targetStep.type
  \/ "keywords" \in DOMAIN item
       /\ \E k \in DOMAIN item.keywords :
            includes(toLowerCase(targetStep.data.label), toLowerCase(item.keywords[k]))

\* C17: suggestImprovements returns, without throwing, the suiting entries of
\* the library followed by the generated defaults, each bound to the step.
C17_SuggestionsAreMatchesThenDefaults ==
  suggested # Null =>
    /\ ~suggested.threw
    /\ LET matches == SelectSeq(library, Suits)
           defaults == Len(generateDefaultSuggestions(targetStep, Draws))
       IN  /\ Len(suggested.value) = Len(matches) + defaults
           /\ \A i \in DOMAIN matches : suggested.value[i].id = matches[i].id
           /\ \A i \in DOMAIN suggested.value :
                /\ suggested.value[i].targetStepId = targetStep.id
                /\ suggested.value[i].targetStepLabel = targetStep.data.label

\* C18: saveImprovement returns, without throwing, the library with the entry
\* of the improvement's id replaced in place, or else with one entry appended
\* whose id is no id of the library; the library itself stays as it was.
C18_SaveIsAnUpsertById ==
  [][callSaveImprovement =>
       /\ library' = library
       /\ ~saved'.threw
       /\ LET found == {i \in DOMAIN library : IdOf(library[i]) = IdOf(candidate)}
              result == saved'.value
          IN  IF found # {}
              THEN /\ Len(result) = Len(library)
                   /\ \A i \in DOMAIN library :
                        IF i = CHOOSE j \in found : \A k \in found : j <= k
                        THEN result[i].title = candidate.title
                        ELSE result[i] = library[i]
              ELSE /\ Len(result) = Len(library) + 1
                   /\ SubSeq(result, 1, Len(library)) = library
                   /\ "id" \in DOMAIN result[Len(result)]
                   /\ \A i \in DOMAIN library :
                        IdOf(library[i]) # IdOf(result[Len(result)])]_vars


\* C19: every step StepModel.create, StepModel.update or StepModel.clone
\* returns has a kind among process, inspection, transport, delay and storage,
\* whatever kind was requested, patched or overridden.
C19_ReturnedKindIsValid ==
  current # Null => current.type \in CATEGORIES

\* C20: the step StepModel.update returns has the id of the step it was given,
\* whatever the patch holds.
C20_UpdateKeepsTheId ==
  modelOp = "update" => current.id = previous.id


\* C21: the step StepModel.clone returns has another id than its source, and
\* writing to the clone's position or attributes afterwards, the checkItems
\* list of an inspection included, leaves the source step as it was.
C21_CloneSharesNothingWithItsSource ==
  [][/\ modelOp' = "clone" => current'.id # previous'.id
     /\ modelOp' = "write" =>
          StepValue(objects', previous') = StepValue(objects, previous)]_vars


\* the handlers that edit the chart, pushing or not
EditOps == PushOps \cup {"nodesChangeFlagged", "edgesChangeFlagged"}

\* no history entry equals the entry after it
NoEqualNeighbours(h) == \A i \in 1..(Len(h) - 1) : h[i] # h[i + 1]

\* C22: the edit that follows an undo or a redo that restored a snapshot does
\* not append the snapshot on screen, which is the restored one, to the
\* history, and leaves no two equal consecutive history entries.
C22_EditAfterRestoreDoesNotRepush ==
  [][(lastOp \in {"undo", "redo"} /\ ops' = ops + 1 /\ lastOp' \in EditOps)
       => /\ history'[Len(history')] # Displayed
          /\ NoEqualNeighbours(history')]_vars

\* C23: a node change that only moves a node pushes nothing: the history and
\* its cursor are as they were.
C23_DragPushesNothing ==
  [][\A change \in NodeChanges :
       (change.type = "position" /\ onNodesChange(change))
         => UNCHANGED <<history, historyIndex>>]_vars

\* C24: a stored snapshot is never changed: undo and redo leave the history as
\* it is, and after every step the entries up to the cursor are the entries
\* that were at those positions before.
C24_StoredSnapshotsStay ==
  [][/\ (ops' = ops + 1 /\ lastOp' \in {"undo", "redo", "undoNoop", "redoNoop"})
          => history' = history
     /\ \A i \in 1..(historyIndex' + 1) :
          i <= Len(history) => history'[i] = history[i]]_vars

\* C25: after one or more edits and no undo or redo, from any chart, the empty
\* one included, an undo restores what was on screen before the last edit.
C25_UndoRestoresTheStateBeforeTheLastEdit ==
  [][(handleUndo /\ ~undone /\ shownBefore # Null)
       => /\ lastOp' = "undo"
          /\ nodes' = shownBefore.nodes
          /\ edges' = shownBefore.edges]_vars

\* C26: a redo that follows an undo that restored a snapshot puts back on
\* screen the nodes and edges that were there before the undo.
C26_RedoRevertsTheUndo ==
  [][(handleRedo /\ lastOp = "undo")
       => /\ nodes' = shownBefore.nodes
          /\ edges' = shownBefore.edges]_vars

\* C27: the chart's own edit, coming back from App as initialNodes, does not
\* initialise the chart again: the history and its cursor are kept.
C27_OwnEditDoesNotReinitialise ==
  [][pc = "init" => UNCHANGED <<history, historyIndex>>]_vars

\* the handlers that are asked to change the edges
EdgeOps ==
  {"connect", "deleteEdge", "deleteNode", "add", "undo", "redo", "edgesChange",
   "edgesChangeFlagged"}

\* C28: the edges change only in a handler that is asked to change them:
\* connect, delete edge, delete node, add node, undo or redo.
C28_EdgesChangeOnlyOnRequest ==
  [][edges' # edges => (ops' = ops + 1 /\ lastOp' \in EdgeOps)]_vars


\* C29: under add, duplicate, delete node, delete edge, connect, undo and redo,
\* the source and the target of every edge on screen are ids of nodes on screen.
C29_EdgesJoinDisplayedNodes ==
  \A i \in DOMAIN edges :
    \E j \in DOMAIN nodes, k \in DOMAIN nodes :
      edges[i].source = nodes[j].id /\ edges[i].target = nodes[k].id

\* C29 witness: a node that had edges has been deleted, and edges are left
C29_Witness ==
  /\ lastOp = "deleteNode"
  /\ pc = "onChange"
  /\ Len(shownBefore.edges) > Len(edges)
  /\ edges # <<>>


\* the candidate list in every order
Orders(list) ==
  {[i \in DOMAIN list |-> list[p[i]]] :
     p \in {q \in [DOMAIN list -> DOMAIN list] :
              \A i, j \in DOMAIN list : q[i] = q[j] => i = j}}

\* what the simulation returns for a candidate list on the input workload:
\* after and savings, by value
EffectOn(list) ==
  LET r == calculateImprovementEffect(InputHeap, 1, list)
  IN  [after |-> WorkloadAt(r.heap, r.after), savings |-> r.savings]

\* C30: the simulation returns the same after (entries, totals and category
\* totals) and the same savings for the candidate list in any order.
C30_CandidateOrderDoesNotMatter ==
  effect # Null =>
    \A other \in Orders(improvements) :
      EffectOn(other) = [after |-> EffectValue(heap, effect).after,
                         savings |-> effect.savings]

====
